---- MODULE Spec2Model ----
(***************************************************************************)
(* Model of sync_ai_coding_instructions/main.py.                           *)
(*                                                                         *)
(* Text is a sequence of character tokens.  "LF" is '\n', "CR" is '\r',    *)
(* "FF" stands for the other line boundaries str.splitlines knows          *)
(* ('\v', '\f', '\x1c'..'\x1e', '\x85', U+2028, U+2029); every other    *)
(* token is a piece of text that holds no line boundary ("#A" is the       *)
(* text '# A', the header build_headers makes for the file name A).        *)
(* The file system keeps bytes; Path.read_text and Path.write_text convert *)
(* between bytes and text, and the conversion is modelled (POSIX: the      *)
(* line separator written is '\n').                                        *)
(* Errors of decoding and of calls other than write_text are left out.     *)
(***************************************************************************)
EXTENDS Integers, Sequences, FiniteSets, TLC

\* Largest modification time a file has before the first run.
MaxMtime == 2
\* Longest --files argument, in tokens.
MaxArgLen == 4

\* The clock never runs past this value (a cap on the time stamps of writes).
MaxClock == MaxMtime + 1

\* File names, in the order used for a HeaderMap's iteration order.
Names == <<"A", "B", "C">>
AllNames == {Names[k] : k \in 1..Len(Names)}
\* Sizes of the HeaderMaps handed to the engine directly.
TargetCounts == {2, 3}
Procs == {1, 2}

\* No SyncResult (yet): the run has not returned, or an error left it.
NoResult == [code |-> -1, message |-> "unset", created |-> {}]

VARIABLES
    targets,      \* the keys of active_headers, in iteration order
    headers,      \* active_headers: file name -> header text
    exists,       \* file system: does directory/name exist
    disk,         \* file system: bytes of directory/name
    mtime,        \* file system: st_mtime of directory/name
    clock,        \* the time a write stamps
    pc,           \* per run: position in sync_markdown
    idx,          \* per run: position of the running loop or comprehension
    existing,     \* per run: the keys of `existing`, in iteration order
    newest_name,  \* per run: max()'s best element so far, then newest_name
    newest_key,   \* per run: the key of max()'s best element so far
    base_body,    \* per run: base_body
    changes_made, \* per run: changes_made
    result,       \* per run: the SyncResult returned, NoResult before
    run,          \* per process: 1 for its first run, 2 for its second
    touched,      \* history: names the current run has written
    pre,          \* history: the file system when the current run started
    first,        \* history: result and file system the first run left
    argv,         \* CLI: the --files value
    cli           \* CLI: position of main, parsed names, exit status

vars == <<targets, headers, exists, disk, mtime, clock, pc, idx, existing,
          newest_name, newest_key, base_body, changes_made, result, run,
          touched, pre, first, argv, cli>>

fsVars == <<exists, disk, mtime, clock>>
cliVars == <<argv, cli>>

(***************************************************************************)
(* Text and bytes                                                          *)
(***************************************************************************)
LineBoundaries == {"LF", "CR", "FF"}

\* Length of lines[0] of text.splitlines(keepends=True); 0 for empty text.
RECURSIVE FirstLineLen(_, _)
FirstLineLen(text, k) ==
    IF k > Len(text) THEN Len(text)
    ELSE IF text[k] \in LineBoundaries
         THEN IF text[k] = "CR" /\ k < Len(text) /\ text[k + 1] = "LF"
              THEN k + 1
              ELSE k
         ELSE FirstLineLen(text, k + 1)

\* ''.join(text.splitlines(keepends=True)[1:]), '' when there are no lines.
BodyOfText(text) ==
    IF text = <<>> THEN <<>>
    ELSE SubSeq(text, FirstLineLen(text, 1) + 1, Len(text))

\* Path.read_text: decoding in universal-newlines mode turns '\r\n' and a
\* lone '\r' into '\n'.
RECURSIVE read_text(_)
read_text(bytes) ==
    IF bytes = <<>> THEN <<>>
    ELSE IF bytes[1] = "CR"
         THEN IF Len(bytes) > 1 /\ bytes[2] = "LF"
              THEN <<"LF">> \o read_text(SubSeq(bytes, 3, Len(bytes)))
              ELSE <<"LF">> \o read_text(Tail(bytes))
         ELSE <<bytes[1]>> \o read_text(Tail(bytes))

\* os.linesep on POSIX.
LineSep == <<"LF">>

\* Path.write_text: encoding writes os.linesep for every '\n'.
RECURSIVE write_text(_)
write_text(text) ==
    IF text = <<>> THEN <<>>
    ELSE (IF text[1] = "LF" THEN LineSep ELSE <<text[1]>>)
         \o write_text(Tail(text))

\* _read_body(path), for the bytes the path holds.
_read_body(bytes) == BodyOfText(read_text(bytes))

\* Mutant: the header is not newline-terminated.
ComposeWithoutNewline(header, body) == header \o body

\* Mutant: a newline is appended whether or not the header ends in one.
ComposeAlwaysNewline(header, body) == header \o <<"LF">> \o body

_compose_content(header, body) ==
    LET header_line == IF header # <<>> /\ header[Len(header)] = "LF"
                       THEN header
                       ELSE header \o <<"LF">>
    IN  header_line \o body

\* build_headers: '# name' for every name.
HeaderOf(name) == <<"#" \o name>>

(***************************************************************************)
(* The command line: a --files value is a sequence of tokens, each a file  *)
(* name without comma or blank ("A", "B"), a comma or a blank.             *)
(***************************************************************************)
RECURSIVE Join(_)
\* The string a sequence of tokens spells.
Join(tokens) == IF tokens = <<>> THEN "" ELSE tokens[1] \o Join(Tail(tokens))

\* Position of the first comma of value at or after k, Len(value) + 1 if none.
RECURSIVE CommaAt(_, _)
CommaAt(value, k) ==
    IF k > Len(value) \/ value[k] = "," THEN k ELSE CommaAt(value, k + 1)

\* value.split(',')
RECURSIVE Split(_)
Split(value) ==
    LET c == CommaAt(value, 1)
    IN  IF c > Len(value) THEN <<value>>
        ELSE <<SubSeq(value, 1, c - 1)>> \o Split(SubSeq(value, c + 1, Len(value)))

\* part.strip()
RECURSIVE Strip(_)
Strip(part) ==
    IF part = <<>> THEN <<>>
    ELSE IF part[1] = " " THEN Strip(Tail(part))
    ELSE IF part[Len(part)] = " " THEN Strip(SubSeq(part, 1, Len(part) - 1))
    ELSE part

\* [part.strip() for part in value.split(',') if part.strip()]
StrippedParts(value) ==
    LET parts == Split(value)
        names == [k \in 1..Len(parts) |-> Join(Strip(parts[k]))]
    IN  SelectSeq(names, LAMBDA name : name # "")

\* The test of _parse_file_list that raises ValueError.
TooFew(files) == Len(files) < 2

\* The keys of the dict build_headers makes: every name once, in the order
\* of first appearance.
RECURSIVE DictKeys(_)
DictKeys(file_names) ==
    IF file_names = <<>> THEN <<>>
    ELSE LET front == DictKeys(SubSeq(file_names, 1, Len(file_names) - 1))
             last == file_names[Len(file_names)]
         IN  IF \E k \in 1..Len(front) : front[k] = last
             THEN front
             ELSE Append(front, last)

(***************************************************************************)
(* The file system                                                         *)
(***************************************************************************)
\* The times a write can stamp: the clock's, or one tick later.
Stamps == {t \in {clock, clock + 1} : t <= MaxClock}

\* path.write_text(text) at time t.
FsWrite(name, text, t) ==
    /\ exists' = [exists EXCEPT ![name] = TRUE]
    /\ disk' = [disk EXCEPT ![name] = write_text(text)]
    /\ mtime' = [mtime EXCEPT ![name] = t]
    /\ clock' = t

Snapshot == [exists |-> exists, disk |-> disk, mtime |-> mtime]

(***************************************************************************)
(* sync_markdown, one action per file-system call                          *)
(***************************************************************************)
\* Mutant: max() keeping the smallest key.
BetterOldest(key, best) == key < best

\* Mutant: max() letting a later equal key win.
BetterOrEqual(key, best) == key >= best

\* max() keeps its best element unless a later key is strictly greater.
Better(key, best) == key > best

\* Mutant: every target counts as different from what is wanted.
AlwaysDiffers(current, desired) == TRUE

\* `current != content` and `current != desired`.
Differs(current, desired) == current # desired

\* The content sync_markdown wants target `name` to have.
Desired(p, name) == _compose_content(headers[name], base_body[p])

\* targets = {...}; existing = {... if path.exists()}: one exists() per target.
ScanExists(p) ==
    /\ pc[p] = "scan"
    /\ LET name == targets[idx[p]]
       IN  existing' = [existing EXCEPT ![p] =
                           IF exists[name] THEN Append(@, name) ELSE @]
    /\ IF idx[p] = Len(targets)
       THEN /\ pc' = [pc EXCEPT ![p] = "max"]
            /\ idx' = [idx EXCEPT ![p] = 1]
       ELSE /\ pc' = pc
            /\ idx' = [idx EXCEPT ![p] = @ + 1]
    /\ UNCHANGED <<targets, headers, fsVars, newest_name, newest_key,
                   base_body, changes_made, result, run, touched, pre, first,
                   cliVars>>

\* Mutant: no early return for an empty `existing`; the partial branch runs
\* with an empty body.
ReturnNotFoundFallsThrough(p) ==
    /\ pc[p] = "max"
    /\ existing[p] = <<>>
    /\ pc' = [pc EXCEPT ![p] = "partial"]
    /\ UNCHANGED <<targets, headers, fsVars, idx, existing, newest_name,
                   newest_key, base_body, changes_made, result, run, touched,
                   pre, first, cliVars>>

\* if not existing: return SyncResult(code=3, ...)
ReturnNotFound(p) ==
    /\ pc[p] = "max"
    /\ existing[p] = <<>>
    /\ result' = [result EXCEPT ![p] =
                     [code |-> 3, message |-> "not found", created |-> {}]]
    /\ pc' = [pc EXCEPT ![p] = "done"]
    /\ UNCHANGED <<targets, headers, fsVars, idx, existing, newest_name,
                   newest_key, base_body, changes_made, run, touched, pre,
                   first, cliVars>>

\* max(existing, key=lambda name: existing[name].stat().st_mtime): one stat()
\* per existing file, in the order of `existing`.
StatNewest(p) ==
    /\ pc[p] = "max"
    /\ existing[p] # <<>>
    /\ LET name == existing[p][idx[p]]
           key == mtime[name]
           take == idx[p] = 1 \/ Better(key, newest_key[p])
       IN  /\ newest_name' = [newest_name EXCEPT ![p] = IF take THEN name ELSE @]
           /\ newest_key' = [newest_key EXCEPT ![p] = IF take THEN key ELSE @]
    /\ IF idx[p] = Len(existing[p])
       THEN /\ pc' = [pc EXCEPT ![p] = "body"]
            /\ idx' = [idx EXCEPT ![p] = 1]
       ELSE /\ pc' = pc
            /\ idx' = [idx EXCEPT ![p] = @ + 1]
    /\ UNCHANGED <<targets, headers, fsVars, existing, base_body,
                   changes_made, result, run, touched, pre, first, cliVars>>

\* Mutant: the body is read from the first existing file, not the newest.
ReadBodyOfFirst(p) ==
    /\ pc[p] = "body"
    /\ base_body' = [base_body EXCEPT ![p] = _read_body(disk[existing[p][1]])]
    /\ pc' = [pc EXCEPT ![p] =
                 IF Len(existing[p]) < Len(targets) THEN "partial" ELSE "all"]
    /\ UNCHANGED <<targets, headers, fsVars, idx, existing, newest_name,
                   newest_key, changes_made, result, run, touched, pre, first,
                   cliVars>>

\* base_body = _read_body(existing[newest_name]), then the branch on
\* len(existing) < len(targets).
ReadBody(p) ==
    /\ pc[p] = "body"
    /\ base_body' = [base_body EXCEPT ![p] = _read_body(disk[newest_name[p]])]
    /\ pc' = [pc EXCEPT ![p] =
                 IF Len(existing[p]) < Len(targets) THEN "partial" ELSE "all"]
    /\ UNCHANGED <<targets, headers, fsVars, idx, existing, newest_name,
                   newest_key, changes_made, result, run, touched, pre, first,
                   cliVars>>

\* Partial branch: `if not path.exists()` for the next target.
PartialExists(p) ==
    /\ pc[p] = "partial"
    /\ idx[p] <= Len(targets)
    /\ pc' = [pc EXCEPT ![p] =
                 IF exists[targets[idx[p]]] THEN "pread" ELSE "create"]
    /\ UNCHANGED <<targets, headers, fsVars, idx, existing, newest_name,
                   newest_key, base_body, changes_made, result, run, touched,
                   pre, first, cliVars>>

\* Partial branch: path.write_text(content) for a target found missing.
PartialCreate(p) ==
    /\ pc[p] = "create"
    /\ LET name == targets[idx[p]]
       IN  /\ \E t \in Stamps : FsWrite(name, Desired(p, name), t)
           /\ touched' = [touched EXCEPT ![p] = @ \cup {name}]
    /\ pc' = [pc EXCEPT ![p] = "partial"]
    /\ idx' = [idx EXCEPT ![p] = @ + 1]
    /\ UNCHANGED <<targets, headers, existing, newest_name, newest_key,
                   base_body, changes_made, result, run, pre, first, cliVars>>

\* Partial branch: current = path.read_text(); if current != content.
PartialRead(p) ==
    /\ pc[p] = "pread"
    /\ LET name == targets[idx[p]]
       IN  IF Differs(read_text(disk[name]), Desired(p, name))
           THEN /\ pc' = [pc EXCEPT ![p] = "pwrite"]
                /\ idx' = idx
           ELSE /\ pc' = [pc EXCEPT ![p] = "partial"]
                /\ idx' = [idx EXCEPT ![p] = @ + 1]
    /\ UNCHANGED <<targets, headers, fsVars, existing, newest_name,
                   newest_key, base_body, changes_made, result, run, touched,
                   pre, first, cliVars>>

\* Partial branch: path.write_text(content) for an existing target.
PartialWrite(p) ==
    /\ pc[p] = "pwrite"
    /\ LET name == targets[idx[p]]
       IN  /\ \E t \in Stamps : FsWrite(name, Desired(p, name), t)
           /\ touched' = [touched EXCEPT ![p] = @ \cup {name}]
    /\ pc' = [pc EXCEPT ![p] = "partial"]
    /\ idx' = [idx EXCEPT ![p] = @ + 1]
    /\ UNCHANGED <<targets, headers, existing, newest_name, newest_key,
                   base_body, changes_made, result, run, pre, first, cliVars>>

\* missing = sorted(set(targets) - set(existing)); return SyncResult(code=2, ...)
ReturnCreated(p) ==
    /\ pc[p] = "partial"
    /\ idx[p] > Len(targets)
    /\ result' = [result EXCEPT ![p] =
                     [code |-> 2, message |-> "created",
                      created |-> {targets[k] : k \in 1..Len(targets)}
                                  \ {existing[p][k] : k \in 1..Len(existing[p])}]]
    /\ pc' = [pc EXCEPT ![p] = "done"]
    /\ UNCHANGED <<targets, headers, fsVars, idx, existing, newest_name,
                   newest_key, base_body, changes_made, run, touched, pre,
                   first, cliVars>>

\* All-present branch: current = path.read_text(); if current != desired.
AllRead(p) ==
    /\ pc[p] = "all"
    /\ idx[p] <= Len(targets)
    /\ LET name == targets[idx[p]]
       IN  IF Differs(read_text(disk[name]), Desired(p, name))
           THEN /\ pc' = [pc EXCEPT ![p] = "awrite"]
                /\ idx' = idx
           ELSE /\ pc' = pc
                /\ idx' = [idx EXCEPT ![p] = @ + 1]
    /\ UNCHANGED <<targets, headers, fsVars, existing, newest_name,
                   newest_key, base_body, changes_made, result, run, touched,
                   pre, first, cliVars>>

\* All-present branch: path.write_text(desired); changes_made = True.
AllWrite(p) ==
    /\ pc[p] = "awrite"
    /\ LET name == targets[idx[p]]
       IN  /\ \E t \in Stamps : FsWrite(name, Desired(p, name), t)
           /\ touched' = [touched EXCEPT ![p] = @ \cup {name}]
    /\ changes_made' = [changes_made EXCEPT ![p] = TRUE]
    /\ pc' = [pc EXCEPT ![p] = "all"]
    /\ idx' = [idx EXCEPT ![p] = @ + 1]
    /\ UNCHANGED <<targets, headers, existing, newest_name, newest_key,
                   base_body, result, run, pre, first, cliVars>>

\* if changes_made: return SyncResult(code=1, ...); return SyncResult(code=0)
ReturnSynced(p) ==
    /\ pc[p] = "all"
    /\ idx[p] > Len(targets)
    /\ result' = [result EXCEPT ![p] =
                     IF changes_made[p]
                     THEN [code |-> 1, message |-> "synchronized", created |-> {}]
                     ELSE [code |-> 0, message |-> "None", created |-> {}]]
    /\ pc' = [pc EXCEPT ![p] = "done"]
    /\ UNCHANGED <<targets, headers, fsVars, idx, existing, newest_name,
                   newest_key, base_body, changes_made, run, touched, pre,
                   first, cliVars>>

\* Mutant: a failed write puts the files back as the run found them.
WriteFailsRollback(p) ==
    /\ pc[p] \in {"create", "pwrite", "awrite"}
    /\ exists' = pre.exists
    /\ disk' = pre.disk
    /\ mtime' = pre.mtime
    /\ clock' = clock
    /\ pc' = [pc EXCEPT ![p] = "raised"]
    /\ UNCHANGED <<targets, headers, idx, existing, newest_name, newest_key,
                   base_body, changes_made, result, run, touched, pre, first,
                   cliVars>>

\* A write_text call raises (permission denied, disk full, ...): the error
\* leaves sync_markdown; the file is untouched when open() failed and
\* truncated when the write after it failed.
WriteFails(p) ==
    /\ pc[p] \in {"create", "pwrite", "awrite"}
    /\ LET name == targets[idx[p]]
       IN  \/ UNCHANGED fsVars
           \/ /\ exists[name]
              /\ \E t \in Stamps : FsWrite(name, <<>>, t)
    /\ pc' = [pc EXCEPT ![p] = "raised"]
    /\ UNCHANGED <<targets, headers, idx, existing, newest_name, newest_key,
                   base_body, changes_made, result, run, touched, pre, first,
                   cliVars>>

\* The caller runs sync_markdown again on the directory as the run left it.
RunAgain(p) ==
    /\ pc[p] = "done"
    /\ run[p] = 1
    /\ run' = [run EXCEPT ![p] = 2]
    /\ first' = [result |-> result[p], exists |-> exists, disk |-> disk]
    /\ pre' = Snapshot
    /\ pc' = [pc EXCEPT ![p] = "scan"]
    /\ idx' = [idx EXCEPT ![p] = 1]
    /\ existing' = [existing EXCEPT ![p] = <<>>]
    /\ newest_name' = [newest_name EXCEPT ![p] = ""]
    /\ newest_key' = [newest_key EXCEPT ![p] = 0]
    /\ base_body' = [base_body EXCEPT ![p] = <<>>]
    /\ changes_made' = [changes_made EXCEPT ![p] = FALSE]
    /\ result' = [result EXCEPT ![p] = NoResult]
    /\ touched' = [touched EXCEPT ![p] = {}]
    /\ UNCHANGED <<targets, headers, fsVars, cliVars>>

EngineStep(p) ==
    \/ ScanExists(p)
    \/ ReturnNotFound(p)
    \/ StatNewest(p)
    \/ ReadBody(p)
    \/ PartialExists(p)
    \/ PartialCreate(p)
    \/ PartialRead(p)
    \/ PartialWrite(p)
    \/ ReturnCreated(p)
    \/ AllRead(p)
    \/ AllWrite(p)
    \/ ReturnSynced(p)

(***************************************************************************)
(* main: parse_args, build_headers, sync_markdown, exit status             *)
(***************************************************************************)
\* parse_args: _parse_file_list(args.files); parser.error (exit status 2) on
\* ValueError.
ParseArgs ==
    /\ cli.pc = "parse"
    /\ LET files == StrippedParts(argv)
       IN  cli' = IF TooFew(files)
                  THEN [pc |-> "exit", files |-> <<>>, status |-> 2]
                  ELSE [pc |-> "build", files |-> files, status |-> cli.status]
    /\ UNCHANGED <<targets, headers, fsVars, pc, idx, existing, newest_name,
                   newest_key, base_body, changes_made, result, run, touched,
                   pre, first, argv>>

\* headers = build_headers(args.files); sync_markdown(args.path, headers=headers)
Invoke ==
    /\ cli.pc = "build"
    /\ targets' = DictKeys(cli.files)
    /\ headers' = [n \in DOMAIN exists |-> HeaderOf(n)]
    /\ pc' = [pc EXCEPT ![1] = "scan"]
    /\ cli' = [cli EXCEPT !.pc = "engine"]
    /\ UNCHANGED <<fsVars, idx, existing, newest_name, newest_key, base_body,
                   changes_made, result, run, touched, pre, first, argv>>

\* return result.code
MainReturn ==
    /\ cli.pc = "engine"
    /\ pc[1] = "done"
    /\ cli' = [cli EXCEPT !.pc = "exit", !.status = result[1].code]
    /\ UNCHANGED <<targets, headers, fsVars, pc, idx, existing, newest_name,
                   newest_key, base_body, changes_made, result, run, touched,
                   pre, first, argv>>

(***************************************************************************)
(* Directories and HeaderMaps the runs start from                          *)
(***************************************************************************)
\* What a header holds after '# name': nothing, a final newline, a blank
\* line, a carriage return.
HeaderSuffixes == {<<>>, <<"LF">>, <<"LF", "LF">>, <<"CR">>}

BodyX == <<"x", "LF">>
BodyY == <<"y">>

\* text with '\r\n' for every '\n' (a file saved with DOS line endings).
RECURSIVE Crlf(_)
Crlf(text) ==
    IF text = <<>> THEN <<>>
    ELSE (IF text[1] = "LF" THEN <<"CR", "LF">> ELSE <<text[1]>>)
         \o Crlf(Tail(text))

FileKinds == {"missing", "empty", "x", "y", "crlf", "alien"}

\* The bytes of a file of each kind, for the target with this header.
InitialBytes(kind, header) ==
    CASE kind = "x" -> write_text(_compose_content(header, BodyX))
      [] kind = "y" -> write_text(_compose_content(header, BodyY))
      [] kind = "crlf" -> Crlf(_compose_content(header, BodyX))
      [] kind = "alien" -> <<"z", "LF">> \o BodyX
      [] OTHER -> <<>>

\* A directory over the names dom where only the names of live may exist, a
\* file of each kind and modification times up to maxm.
DirInit(dom, live, kinds, suffix, maxm) ==
    \E kind \in [live -> kinds], mt \in [live -> 0..maxm] :
        /\ \A n \in live : (kind[n] = "missing") <=> (mt[n] = 0)
        /\ exists = [n \in dom |-> n \in live /\ kind[n] # "missing"]
        /\ disk = [n \in dom |->
                     IF n \in live
                     THEN InitialBytes(kind[n], HeaderOf(n) \o suffix)
                     ELSE <<>>]
        /\ mtime = [n \in dom |-> IF n \in live THEN mt[n] ELSE 0]

RunInit ==
    /\ idx = [q \in Procs |-> 1]
    /\ existing = [q \in Procs |-> <<>>]
    /\ newest_name = [q \in Procs |-> ""]
    /\ newest_key = [q \in Procs |-> 0]
    /\ base_body = [q \in Procs |-> <<>>]
    /\ changes_made = [q \in Procs |-> FALSE]
    /\ result = [q \in Procs |-> NoResult]
    /\ run = [q \in Procs |-> 1]
    /\ touched = [q \in Procs |-> {}]
    /\ first = [result |-> NoResult, exists |-> exists, disk |-> disk]
    /\ pre = Snapshot

\* sync_markdown called with a HeaderMap of the caller's, as the tests do.
Init ==
    /\ targets \in {SubSeq(Names, 1, n) : n \in TargetCounts}
    /\ \E suffix \in HeaderSuffixes :
          /\ headers = [n \in AllNames |-> HeaderOf(n) \o suffix]
          /\ DirInit(AllNames, {targets[k] : k \in 1..Len(targets)},
                     FileKinds, suffix, MaxMtime)
    /\ clock \in {1, MaxMtime, MaxClock}
    /\ pc = [q \in Procs |-> IF q = 1 THEN "scan" ELSE "off"]
    /\ RunInit
    /\ argv = <<>>
    /\ cli = [pc |-> "api", files |-> <<>>, status |-> 0]

Next ==
    \E p \in Procs : EngineStep(p) \/ WriteFails(p) \/ RunAgain(p)

Spec == Init /\ [][Next]_vars

\* Two runs at once over one directory, headers of one line, no write
\* stamped earlier than a modification time already there.
ConcKinds == {"missing", "x", "y"}

InitConc ==
    /\ targets \in {SubSeq(Names, 1, n) : n \in TargetCounts}
    /\ headers = [n \in AllNames |-> HeaderOf(n)]
    /\ DirInit(AllNames, {targets[k] : k \in 1..Len(targets)},
               ConcKinds, <<>>, MaxMtime)
    /\ clock = MaxMtime
    /\ pc = [q \in Procs |-> "scan"]
    /\ RunInit
    /\ argv = <<>>
    /\ cli = [pc |-> "api", files |-> <<>>, status |-> 0]

NextConc == \E p \in Procs : EngineStep(p)

SpecConc ==
    InitConc /\ [][NextConc]_vars /\ \A p \in Procs : WF_vars(EngineStep(p))

\* main with a --files value of the user's.
ArgTokens == {"A", "B", ",", " "}
ArgValues == UNION {[1..n -> ArgTokens] : n \in 0..MaxArgLen}
CliKinds == {"missing", "x", "y", "alien"}

InitCli ==
    /\ argv \in ArgValues
    /\ targets = <<>>
    /\ headers = <<>>
    /\ LET files == StrippedParts(argv)
       IN  DirInit(AllNames \cup {files[k] : k \in 1..Len(files)},
                   {"A", "B"}, CliKinds, <<>>, 1)
    /\ clock = MaxClock
    /\ pc = [q \in Procs |-> "off"]
    /\ RunInit
    /\ cli = [pc |-> "parse", files |-> <<>>, status |-> 0]

NextCli == ParseArgs \/ Invoke \/ EngineStep(1) \/ MainReturn

SpecCli == InitCli /\ [][NextCli]_vars

(***************************************************************************)
(* Vocabulary of the claims                                                *)
(***************************************************************************)
TargetSet == {targets[k] : k \in 1..Len(targets)}

Returned(p) == pc[p] = "done"

\* The header as a line: the header, newline-terminated.
HeaderLine(header) ==
    IF header # <<>> /\ header[Len(header)] = "LF" THEN header
    ELSE header \o <<"LF">>

\* A header that is one line of text: no line boundary but one final '\n'.
IsLine(header) ==
    \A k \in 1..Len(header) :
        header[k] \in LineBoundaries => (k = Len(header) /\ header[k] = "LF")

HeadersAreLines == \A n \in TargetSet : IsLine(headers[n])

\* A file's content as Path.read_text shows it, now and when the run started.
Text(n) == read_text(disk[n])
PreText(n) == read_text(pre.disk[n])

FirstLine(text) == SubSeq(text, 1, FirstLineLen(text, 1))

\* The targets that existed when the run started, and the newest of a set.
PreExisting == {n \in TargetSet : pre.exists[n]}
NewestBefore(S) == {s \in S : \A m \in S : pre.mtime[s] >= pre.mtime[m]}

IndexOf(n) == CHOOSE k \in 1..Len(targets) : targets[k] = n

\* The newest file that comes first in the HeaderMap's iteration order.
FirstNewest ==
    CHOOSE s \in NewestBefore(PreExisting) :
        \A m \in NewestBefore(PreExisting) : IndexOf(s) <= IndexOf(m)

Suffixes(bytes) == {SubSeq(bytes, k, Len(bytes)) : k \in 1..Len(bytes) + 1}

Untouched(n) ==
    /\ exists[n] = pre.exists[n]
    /\ disk[n] = pre.disk[n]
    /\ mtime[n] = pre.mtime[n]

(***************************************************************************)
(* C1.  After a run that returned a SyncResult and started with at least   *)
(* one existing target, every target on disk holds its own header line     *)
(* followed by a body, and the bytes of that body are the same in all      *)
(* targets.                                                                *)
(***************************************************************************)
C1_SharedBodyOnDisk ==
    (Returned(1) /\ PreExisting # {}) =>
        \E n0 \in TargetSet : \E body \in Suffixes(disk[n0]) :
            \A n \in TargetSet :
                exists[n] => disk[n] = HeaderLine(headers[n]) \o body

(***************************************************************************)
(* C2.  All targets exist and their bodies differ: after the run every     *)
(* target's body is the body a newest-by-mtime file had before, every      *)
(* target's first line is its own header, and the code is 1 (headers being *)
(* lines, as "first line is its header" supposes).                         *)
(***************************************************************************)
BodiesDiffered ==
    \E m, n \in TargetSet : BodyOfText(PreText(m)) # BodyOfText(PreText(n))

Holds(n, text) == Text(n) = read_text(write_text(text))

C3_PartialCreatesAll ==
    (Returned(1) /\ PreExisting # {} /\ PreExisting # TargetSet) =>
        /\ result[1].code = 2
        /\ \E s \in NewestBefore(PreExisting) :
              \A n \in TargetSet :
                  /\ exists[n]
                  /\ Holds(n, HeaderLine(headers[n]) \o BodyOfText(PreText(s)))

C3_Witness ==
    /\ Returned(1) /\ run[1] = 1
    /\ Len(targets) = 3
    /\ PreExisting = {"A", "B"} /\ HeadersAreLines
    /\ NewestBefore(PreExisting) = {"B"}
    /\ BodyOfText(PreText("A")) # BodyOfText(PreText("B"))
    /\ result[1].code = 2
    /\ touched[1] = {"A", "C"}

(***************************************************************************)
(* C4.  Idempotence.  As claimed, for every HeaderMap: a first run that    *)
(* returned 1 or 2 is followed by a second run that returns 0 with no      *)
(* message and leaves every file as the first run left it.                 *)
(***************************************************************************)
SecondRunIsQuiet ==
    /\ result[1].code = 0
    /\ result[1].message = "None"
    /\ disk = first.disk
    /\ exists = first.exists

C4_IdempotentEveryHeaderMap ==
    (Returned(1) /\ run[1] = 2 /\ first.result.code \in {1, 2}) =>
        SecondRunIsQuiet

\* C4 as amended: the same, for HeaderMaps whose headers are lines.
C4_IdempotentLineHeaders ==
    (Returned(1) /\ run[1] = 2 /\ first.result.code \in {1, 2} /\ HeadersAreLines) =>
        SecondRunIsQuiet

C4_Witness ==
    /\ Returned(1) /\ run[1] = 2
    /\ first.result.code = 1
    /\ HeadersAreLines
    /\ result[1].code = 0
    /\ \E n \in TargetSet : Text(n) # read_text(InitialBytes("x", headers[n]))

(***************************************************************************)
(* C5.  No target exists: the run returns code 3 with a message and        *)
(* writes nothing, no file is created.                                     *)
(***************************************************************************)
C5_NothingFound ==
    (Returned(1) /\ PreExisting = {}) =>
        /\ result[1].code = 3
        /\ result[1].message \notin {"None", "unset"}
        /\ touched[1] = {}
        /\ \A n \in DOMAIN exists : ~exists[n] /\ Untouched(n)

C5_Witness ==
    /\ Returned(1) /\ PreExisting = {} /\ Len(targets) = 3
    /\ result[1].code = 3

(***************************************************************************)
(* C6.  An existing target is written only if what it holds differs from   *)
(* what the run wants it to hold (own header and the newest body); when    *)
(* all targets share one body under their own headers, the run returns 0   *)
(* with no message and no file's content or mtime changes.                 *)
(***************************************************************************)
InSyncBefore ==
    /\ PreExisting = TargetSet
    /\ \A n \in TargetSet : FirstLine(PreText(n)) = HeaderLine(headers[n])
    /\ ~BodiesDiffered

C6_WritesOnlyOnDifference ==
    /\ \A n \in touched[1] :
          pre.exists[n] => PreText(n) # HeaderLine(headers[n]) \o base_body[1]
    /\ (Returned(1) /\ InSyncBefore) =>
          /\ result[1].code = 0
          /\ result[1].message = "None"
          /\ touched[1] = {}
          /\ \A n \in DOMAIN exists : Untouched(n)

C6_Witness ==
    /\ Returned(1) /\ run[1] = 1 /\ InSyncBefore
    /\ Len(targets) = 3
    /\ NewestBefore(TargetSet) = {"C"}
    /\ result[1].code = 0

(***************************************************************************)
(* C8.  Of several newest files the run takes the one that comes first in  *)
(* the HeaderMap's iteration order, in the partial branch and in the       *)
(* all-present branch alike; which files are written, what they hold       *)
(* afterwards and the code returned follow from order, existence,          *)
(* contents and mtimes.                                                    *)
(***************************************************************************)
WantedBytes(n) == HeaderLine(headers[n]) \o BodyOfText(PreText(FirstNewest))

MustWrite(n) == ~pre.exists[n] \/ PreText(n) # WantedBytes(n)

C8_FirstNewestWins ==
    (Returned(1) /\ PreExisting # {}) =>
        /\ newest_name[1] = FirstNewest
        /\ base_body[1] = BodyOfText(PreText(FirstNewest))
        /\ touched[1] = {n \in TargetSet : MustWrite(n)}
        /\ \A n \in TargetSet :
              IF MustWrite(n)
              THEN exists[n] /\ disk[n] = WantedBytes(n)
              ELSE Untouched(n)
        /\ result[1].code =
              IF PreExisting # TargetSet THEN 2
              ELSE IF \E n \in TargetSet : MustWrite(n) THEN 1 ELSE 0

C8_Witness ==
    /\ Returned(1) /\ run[1] = 1
    /\ Len(targets) = 3
    /\ PreExisting = {"B", "C"}
    /\ NewestBefore(PreExisting) = {"B", "C"}
    /\ BodyOfText(PreText("B")) # BodyOfText(PreText("C"))
    /\ newest_name[1] = "B"
    /\ result[1].code = 2

(***************************************************************************)
(* C9.  A write of target K fails: the error leaves the run without a      *)
(* SyncResult, the targets before K that the run wrote keep what it wrote, *)
(* the targets after K are as they were.                                   *)
(***************************************************************************)
C9_NoRollback ==
    pc[1] = "raised" =>
        /\ result[1] = NoResult
        /\ \A k \in 1..Len(targets) :
              /\ (k < idx[1] /\ targets[k] \in touched[1]) =>
                    /\ exists[targets[k]]
                    /\ disk[targets[k]] =
                          HeaderLine(headers[targets[k]]) \o base_body[1]
              /\ (k < idx[1] /\ targets[k] \notin touched[1]) =>
                    Untouched(targets[k])
              /\ k > idx[1] => Untouched(targets[k])

C9_Witness ==
    /\ pc[1] = "raised" /\ run[1] = 1
    /\ Len(targets) = 3 /\ idx[1] = 2
    /\ touched[1] = {"A"}
    /\ disk["A"] # pre.disk["A"]
    /\ pre.exists["C"]
    /\ read_text(pre.disk["C"]) # HeaderLine(headers["C"]) \o base_body[1]

(***************************************************************************)
(* C7.  main never hands the engine a HeaderMap of fewer than 2 entries:   *)
(* a --files value that yields fewer than 2 file names ends in a usage     *)
(* error (exit status 2) before the engine runs.                           *)
(***************************************************************************)
C7_EngineGetsTwoTargets ==
    /\ cli.pc = "engine" => Len(targets) >= 2
    /\ (cli.pc # "parse" /\ Len(StrippedParts(argv)) < 2) =>
          /\ cli.pc = "exit" /\ cli.status = 2
          /\ pc[1] = "off"

(***************************************************************************)
(* C10.  Two runs at once (headers of one line, every file-system call     *)
(* atomic, stamps never earlier than an mtime already there): both return, *)
(* and once both have, every target exists under its own header and all    *)
(* share the body of a file that was newest before either started.  As     *)
(* claimed, the final state is that of every directory; as amended, of     *)
(* every directory where a target existed before the runs.                 *)
(***************************************************************************)
BothReturned == \A p \in Procs : Returned(p)

Converged ==
    \E s \in NewestBefore(PreExisting) :
        \A n \in TargetSet :
            /\ exists[n]
            /\ FirstLine(Text(n)) = HeaderLine(headers[n])
            /\ BodyOfText(Text(n)) = BodyOfText(PreText(s))

\* The final state C10 claims, for every directory.
C10_EveryDirectoryConverges == BothReturned => Converged

\* C10 as amended: both runs return, and converge where a target existed.
C10_ConcurrentRunsConverge ==
    /\ <>BothReturned
    /\ [](BothReturned /\ PreExisting # {} => Converged)

C10_Witness ==
    /\ BothReturned
    /\ Len(targets) = 3
    /\ PreExisting = {"B", "C"}
    /\ BodyOfText(PreText("B")) # BodyOfText(PreText("C"))
    /\ result[1].code = 2 /\ result[2].code = 1
    /\ touched[1] # {} /\ touched[2] # {}

====
